---- MODULE Spec2Model ----
(***************************************************************************)
(* Hotel booking widget: the date-range selection controller (DatesPicker), *)
(* the range validator (useDateValidation) and the availability index       *)
(* (useAvailability).                                                       *)
(*                                                                          *)
(* Dates.  A JavaScript Date at local midnight is modelled by its day       *)
(* ordinal.  The calendar keeps twelve months per year and the roll-over    *)
(* arithmetic of `new Date(y, m, d)` and `setDate`, but every month has     *)
(* DaysPerMonth days so that whole snapshots can be enumerated.  Where the  *)
(* code adds milliseconds to a Date, time is counted in hours from          *)
(* getTime, and the browser's time zone may give one day 23 or 25 hours.    *)
(*                                                                          *)
(* Optional values (`undefined`, `null`) are modelled by tuples: <<>> is    *)
(* the absent value.  A DateRange is <<>> (undefined), <<from>> (to unset)  *)
(* or <<from, to>>.                                                         *)
(***************************************************************************)
EXTENDS Integers, Sequences, FiniteSets, Bags, TLC

VARIABLES
    monthlyAvailability,  \* useAvailability state: Null or [data |-> set of records]
    monthlyLoading,       \* useAvailability state
    inFlight,             \* availability fetches issued and not yet resolved: month -> count
    currentMonth,         \* DatesPicker state: first day of the first displayed month
    selectedRange,        \* DatesPicker state: <<>>, <<from>> or <<from, to>>
    event,                \* the last handleRangeSelect call: <<kind of the state before it, its argument>>
    notified,             \* the onRangeSelect invocations made by the last handleRangeSelect call
    clockChange,          \* the browser's time zone: <<>>, or <<day, hours>> for the one day
                          \* on display whose local length is not twenty-four hours
    formData,             \* BookingForm state: [name, phone, adults]
    errors,               \* BookingForm state: the fields validateForm found an error in
    isSubmitting,         \* BookingForm state
    handed,               \* the BookingData the last handleSubmit gave to BookingService: <<>> or <<data>>
    response,             \* how the submission ended: <<>>, or <<[outcome |-> what fetch did,
                          \* done |-> what submitBooking did: [return |-> r] or [throw |-> e]]>>
    hasResizeObserver,    \* the host page: window.ResizeObserver exists
    containers,           \* the host page: container element -> the iframes it holds (by widget)
    widgets,              \* createWidget closures: widget -> <<>> or [container, heightInterval,
                          \* resizeObserver, listening]
    intervals,            \* the host page: the interval timers that are active
    observing,            \* the host page: the resize observers that observe an element
    listeners,            \* the host page: window listeners, <<event type, widget>>
    call,                 \* the last call of a widget method: <<>> or [method, widget, threw]
    tabCache,             \* googleSheets.ts: the Map, as its entries in insertion order
    fetching,             \* getCachedTabs calls that await the spreadsheet: [key, now]
    now,                  \* Date.now() on the server
    sets,             \* how many times tabCache.set has been called so far
    lastSet               \* the last tabCache.set and its clean-up: <<>> or [key, deleted]

pickerVars ==
    <<monthlyAvailability, monthlyLoading, inFlight, currentMonth, selectedRange, event, notified>>

formVars == <<formData, errors, isSubmitting, handed, response>>

widgetVars == <<hasResizeObserver, containers, widgets, intervals, observing, listeners, call>>

cacheVars == <<tabCache, fetching, now, sets, lastSet>>

\* what the picker's handlers leave alone
elsewhere == <<clockChange, formVars, widgetVars, cacheVars>>

vars == <<pickerVars, elsewhere>>

----------------------------------------------------------------------------
(* Bounds *)

DaysPerMonth == 3
MaxInFlight == 2
RoomNumbers == {1}
MaxAdults == 3
MaxChildren == 2
MaxWidgets == 2
MaxCalls == 2
MaxNow == 1
MaxSets == 11

----------------------------------------------------------------------------
(* JavaScript Date *)

December == 11

NewDate(y, m, d) == (y * (December + 1) + m) * DaysPerMonth + (d - 1)
getFullYear(t) == t \div ((December + 1) * DaysPerMonth)
getMonth(t) == (t \div DaysPerMonth) % (December + 1)
getDate(t) == (t % DaysPerMonth) + 1

Min(S) == CHOOSE x \in S : \A y \in S : x <= y

\* 24 * 60 * 60 * 1000 milliseconds, counted in hours
HoursPerDay == 24

\* no day on display has a clock change
NoClockChange == <<>>

\* the local length of day d in hours
dayHours(d) ==
    IF clockChange # NoClockChange /\ clockChange[1] = d THEN clockChange[2] ELSE HoursPerDay

\* Date.getTime() of the local midnight of day d, counted in hours
getTime(d) ==
    HoursPerDay * d
      + (IF clockChange # NoClockChange /\ d > clockChange[1] THEN clockChange[2] - HoursPerDay ELSE 0)

Undefined == <<>>
HasFrom(range) == Len(range) >= 1
HasTo(range) == Len(range) = 2
From(range) == range[1]
To(range) == range[2]

Null == [null |-> TRUE]

----------------------------------------------------------------------------
(* useAvailability: the availability index *)

MiradorRoom == 7

\* new Date(year, month, 0).getDate() with a 1-based month
daysInMonth(year, month) == getDate(NewDate(year, month, 0))

\* the records of one month that the index looks at
RoomsOfMonth(ma, isMirador, year, month) ==
    {room \in ma.data : /\ room.year = year
                        /\ room.month = month
                        /\ ~(isMirador /\ room.roomNumber # MiradorRoom)}

\* roomsConfig: maxPersons of the rooms 1..7 (7 is the Mirador cottage)
roomsConfig == <<2, 3, 2, 2, 2, 3, 4>>

\* <<>> for null, <<maxPersons>> otherwise
getRoomConfig(roomNumber) ==
    IF roomNumber \in DOMAIN roomsConfig THEN <<roomsConfig[roomNumber]>> ELSE <<>>

\* variant: a room without configuration accommodates no party
canAccommodateConfigured(guestInfo, roomNumber) ==
    \/ guestInfo = Undefined
    \/ /\ getRoomConfig(roomNumber) # <<>>
       /\ getRoomConfig(roomNumber)[1] >= guestInfo.adults + guestInfo.children

\* !guestInfo || !roomConfig || roomConfig.maxPersons >= guestInfo.adults + guestInfo.children
canAccommodate(guestInfo, roomNumber) ==
    \/ guestInfo = Undefined
    \/ getRoomConfig(roomNumber) = <<>>
    \/ getRoomConfig(roomNumber)[1] >= guestInfo.adults + guestInfo.children

getAvailableDatesForMonth(ma, guestInfo, isMirador, year, month) ==
    IF ma = Null THEN {}
    ELSE LET availableDatesSet ==
                 UNION {room.availableDates :
                           room \in {rr \in RoomsOfMonth(ma, isMirador, year, month) :
                                        canAccommodate(guestInfo, rr.roomNumber)}}
         IN  {NewDate(year, month - 1, day) : day \in availableDatesSet}

getCompletelyOccupiedDatesForMonth(ma, isMirador, year, month) ==
    IF ma = Null THEN {}
    ELSE LET availableDatesSet ==
                 UNION {room.availableDates : room \in RoomsOfMonth(ma, isMirador, year, month)}
         IN  {NewDate(year, month - 1, day) :
                 day \in {dd \in 1..daysInMonth(year, month) : dd \notin availableDatesSet}}

getCompletelyOccupiedDates(ma, isMirador, cm) ==
    IF ma = Null THEN {}
    ELSE LET currentYear == getFullYear(cm)
             currentMonthNum == getMonth(cm) + 1
             nextMonthDate == NewDate(currentYear, currentMonthNum, 1)
             nextYear == getFullYear(nextMonthDate)
             nextMonthNum == getMonth(nextMonthDate) + 1
         IN  getCompletelyOccupiedDatesForMonth(ma, isMirador, currentYear, currentMonthNum)
               \cup getCompletelyOccupiedDatesForMonth(ma, isMirador, nextYear, nextMonthNum)

getAvailableDates(ma, guestInfo, isMirador, cm) ==
    IF ma = Null THEN {}
    ELSE LET currentYear == getFullYear(cm)
             currentMonthNum == getMonth(cm) + 1
             nextMonthDate == NewDate(currentYear, currentMonthNum, 1)
             nextYear == getFullYear(nextMonthDate)
             nextMonthNum == getMonth(nextMonthDate) + 1
         IN  getAvailableDatesForMonth(ma, guestInfo, isMirador, currentYear, currentMonthNum)
               \cup getAvailableDatesForMonth(ma, guestInfo, isMirador, nextYear, nextMonthNum)

\* endDateTime: range.to.getTime(), or range.from.getTime() plus 24 hours when
\* `to` is unset
endDateTime(range) ==
    IF HasTo(range) THEN getTime(To(range)) ELSE getTime(From(range)) + HoursPerDay

\* the while loop that collects stayDates: currentDate advances by setDate(+1)
\* for as long as its time is before end
RECURSIVE stayDatesFrom(_, _)
stayDatesFrom(currentDate, end) ==
    IF getTime(currentDate) < end
    THEN {currentDate} \cup stayDatesFrom(currentDate + 1, end)
    ELSE {}

\* roomAvailableForAllDates: for every stay date, the record found for the room and
\* the date's (year, month) lists the day (the feed holds one record per room and month)
roomAvailableForAllDates(ma, roomNumber, stayDates) ==
    \A t \in stayDates :
        LET found == {room \in ma.data : /\ room.roomNumber = roomNumber
                                         /\ room.year = getFullYear(t)
                                         /\ room.month = getMonth(t) + 1}
        IN  /\ found # {}
            /\ getDate(t) \in (CHOOSE room \in found : TRUE).availableDates

\* the room numbers of the RoomInfo list
getRoomsForDateRange(ma, guestInfo, isMirador, range) ==
    IF ma = Null \/ ~HasFrom(range) THEN {}
    ELSE LET stayDates == stayDatesFrom(From(range), endDateTime(range))
             allRooms == {room.roomNumber :
                             room \in {rr \in ma.data : ~(isMirador /\ rr.roomNumber # MiradorRoom)}}
         IN  {roomNumber \in allRooms :
                 /\ roomAvailableForAllDates(ma, roomNumber, stayDates)
                 /\ canAccommodate(guestInfo, roomNumber)}

----------------------------------------------------------------------------
(* useDateValidation: the range validator *)

\* monthlyAvailability.data.some(room => year, month match and availableDates includes day)
hasAvailableRoom(ma, t) ==
    \E room \in ma.data : /\ room.year = getFullYear(t)
                          /\ room.month = getMonth(t) + 1
                          /\ getDate(t) \in room.availableDates

\* the stay dates are startDate, startDate + 1, ... strictly before endDate
isRangeValid(ma, startDate, endDate) ==
    IF ma = Null THEN FALSE
    ELSE \A t \in startDate..(endDate - 1) : hasAvailableRoom(ma, t)

\* whether the scan goes on into the month after the start month
ScansNextMonth(startMonth) == startMonth < December

\* variant: the scan starts at the check-in day itself
FirstScannedDayIsCheckIn(startDay) == startDay

\* the scan of the check-in's month starts at the day after the check-in
FirstScannedDay(startDay) == startDay + 1

\* <<>> for null, <<date>> otherwise
findFirstAllowedCheckoutDate(ma, startDate) ==
    IF ma = Null THEN <<>>
    ELSE LET startYear == getFullYear(startDate)
             startMonth == getMonth(startDate)
             startDay == getDate(startDate)
             daysInCurrentMonth == getDate(NewDate(startYear, startMonth + 1, 0))
             inCurrent == {NewDate(startYear, startMonth, day) : day \in FirstScannedDay(startDay)..daysInCurrentMonth}
             occupiedCurrent == {t \in inCurrent : ~hasAvailableRoom(ma, t)}
             nextYear == startYear
             nextMonth == startMonth + 1
             daysInNextMonth == getDate(NewDate(nextYear, nextMonth + 1, 0))
             inNext == {NewDate(nextYear, nextMonth, day) : day \in 1..daysInNextMonth}
             occupiedNext == {t \in inNext : ~hasAvailableRoom(ma, t)}
         IN  IF occupiedCurrent # {} THEN <<Min(occupiedCurrent)>>
             ELSE IF ScansNextMonth(startMonth) /\ occupiedNext # {} THEN <<Min(occupiedNext)>>
             ELSE <<>>

\* whether the smart rules treat the second displayed month at all
HandlesNextMonth(nextMonth) == nextMonth <= December

\* variant: the rules also apply once the range is complete
HasCheckIn(range) == HasFrom(range)

\* the smart rules apply only while a check-in is selected and no check-out yet
AwaitsCheckout(range) == HasFrom(range) /\ ~HasTo(range)

getSmartDisabledDates(ma, cm, range) ==
    IF ma = Null THEN {}
    ELSE IF ~AwaitsCheckout(range) THEN {}
    ELSE
      LET year == getFullYear(cm)
          month == getMonth(cm)
          selectedDay == getDate(From(range))
          selectedMonth == getMonth(From(range))
          selectedYear == getFullYear(From(range))
          allowedCheckoutDate == findFirstAllowedCheckoutDate(ma, From(range))
          hasCheckout == allowedCheckoutDate # <<>>
          checkoutDay == getDate(allowedCheckoutDate[1])
          checkoutMonth == getMonth(allowedCheckoutDate[1])
          checkoutYear == getFullYear(allowedCheckoutDate[1])
          monthDays == getDate(NewDate(year, month + 1, 0))
          startInCurrent == selectedMonth = month /\ selectedYear = year
          currentPart ==
              IF startInCurrent
              THEN {NewDate(year, month, day) : day \in 1..(selectedDay - 1)}
                     \cup {NewDate(year, month, selectedDay)}
                     \cup (IF hasCheckout /\ checkoutMonth = month /\ checkoutYear = year
                           THEN {NewDate(year, month, day) : day \in (checkoutDay + 1)..monthDays}
                           ELSE {})
              ELSE {NewDate(year, month, day) : day \in 1..monthDays}
          nextYear == year
          nextMonth == month + 1
          nextMonthDays == getDate(NewDate(nextYear, nextMonth + 1, 0))
          nextPart ==
              IF ~HandlesNextMonth(nextMonth) THEN {}
              ELSE IF startInCurrent
              THEN IF ~hasCheckout THEN {}
                   ELSE IF checkoutMonth = nextMonth /\ checkoutYear = nextYear
                   THEN {NewDate(nextYear, nextMonth, day) : day \in (checkoutDay + 1)..nextMonthDays}
                   ELSE IF checkoutMonth = month /\ checkoutYear = year
                   THEN {NewDate(nextYear, nextMonth, day) : day \in 1..nextMonthDays}
                   ELSE {}
              ELSE IF selectedMonth = nextMonth /\ selectedYear = nextYear
              THEN {NewDate(nextYear, nextMonth, day) : day \in 1..(selectedDay - 1)}
                     \cup {NewDate(nextYear, nextMonth, selectedDay)}
                     \cup (IF hasCheckout /\ checkoutMonth = nextMonth /\ checkoutYear = nextYear
                           THEN {NewDate(nextYear, nextMonth, day) : day \in (checkoutDay + 1)..nextMonthDays}
                           ELSE {})
              ELSE {NewDate(nextYear, nextMonth, day) : day \in 1..nextMonthDays}
      IN  currentPart \cup nextPart

\* variant: the first allowed check-out date is not carved out
KeptWithoutBoundary(ma, range, t) ==
    IF HasFrom(range) /\ ~HasTo(range)
    THEN t # From(range) /\ t # From(range) + 1
    ELSE TRUE

\* the dates the filter of getAllDisabledDates lets through (all of them when no range is open)
KeptByCarveOut(ma, range, t) ==
    IF HasFrom(range) /\ ~HasTo(range)
    THEN LET startDate == From(range)
             nextDay == From(range) + 1
             allowedCheckoutDate == findFirstAllowedCheckoutDate(ma, startDate)
         IN  /\ t # startDate
             /\ t # nextDay
             /\ (allowedCheckoutDate # <<>> => t # allowedCheckoutDate[1])
    ELSE TRUE

getAllDisabledDates(ma, cm, range, isMirador) ==
    LET completelyOccupied == getCompletelyOccupiedDates(ma, isMirador, cm)
        smartDisabled == getSmartDisabledDates(ma, cm, range)
    IN  {t \in completelyOccupied \cup smartDisabled : KeptByCarveOut(ma, range, t)}

----------------------------------------------------------------------------
(* DatesPicker: the selection controller *)

\* variant: the range is stored and the callback is forgotten
StoredSilently(r) == [selectedRange |-> r, notified |-> <<>>]

\* setSelectedRange(r) followed by onRangeSelect(r)
Stored(r) == [selectedRange |-> r, notified |-> <<r>>]

\* a bare return: nothing is stored and the callback is not invoked
Ignored(sel) == [selectedRange |-> sel, notified |-> <<>>]

\* a complete range is already selected
AlreadyComplete(sel) == HasFrom(sel) /\ HasTo(sel)

\* variant: the click that resets a complete range also starts the next one
RestartOnClick(range) == IF HasFrom(range) THEN Stored(<<From(range)>>) ELSE Stored(Undefined)

\* what a click does while a complete range is selected
ResetOnClick(range) == Stored(Undefined)

\* range.from and range.to are the same instant
SameInstant(range) == HasFrom(range) /\ HasTo(range) /\ From(range) = To(range)

\* variant: `to` is not cleared
NormalisedKeepsTo(range) == range

\* what a same-instant range is normalised to
Normalised(range) == <<From(range)>>

\* Math.ceil((to - from) / one day), for dates at midnight
daysDiff(range) == To(range) - From(range)

\* variant: the length of the stay is taken as an absolute difference
TooShortAbs(range) == (IF daysDiff(range) < 0 THEN 0 - daysDiff(range) ELSE daysDiff(range)) < 1

TooShort(range) == daysDiff(range) < 1

\* variant: only the first night of a longer stay is validated
RejectedFirstNightOnly(ma, range) ==
    daysDiff(range) > 1 /\ ~isRangeValid(ma, From(range), From(range) + 1)

\* variant: every stay is validated, through to its last night
RejectedWholeStay(ma, range) ==
    daysDiff(range) >= 1 /\ ~isRangeValid(ma, From(range), To(range))

\* stayEndDate is range.to minus one day; only stays of more than one night are validated
Rejected(ma, range) == daysDiff(range) > 1 /\ ~isRangeValid(ma, From(range), To(range) - 1)

handleRangeSelect(ma, sel, range) ==
    IF range = Undefined THEN Stored(Undefined)
    ELSE IF AlreadyComplete(sel) THEN ResetOnClick(range)
    ELSE IF SameInstant(range) THEN Stored(Normalised(range))
    ELSE IF HasFrom(range) /\ ~HasTo(range) THEN Stored(range)
    ELSE IF HasFrom(range) /\ HasTo(range)
         THEN IF TooShort(range) THEN Ignored(sel)
              ELSE IF Rejected(ma, range) THEN Ignored(sel)
              ELSE Stored(range)
    ELSE Ignored(sel)

\* variant: the next day is appended without looking for it
nextDayNeverFound(normalAvailable, nextDay) == FALSE

\* normalAvailable.some(date => date.getTime() === nextDay.getTime())
nextDayExists(normalAvailable, nextDay) == nextDay \in normalAvailable

\* the array handed to the calendar as a bag of dates; getAvailableDates has no
\* repeated date: each month's days come out of a Set
getAvailableDatesForPicker(ma, cm, range) ==
    LET normalAvailable == getAvailableDates(ma, Undefined, FALSE, cm)
    IN  IF HasFrom(range) /\ ~HasTo(range)
           /\ ~nextDayExists(normalAvailable, From(range) + 1)
        THEN SetToBag(normalAvailable) (+) SetToBag({From(range) + 1})
        ELSE SetToBag(normalAvailable)

\* DayPicker in range mode: the range passed to onSelect when `day` is clicked
AddToRange(day, range) ==
    IF HasFrom(range) /\ HasTo(range)
    THEN IF To(range) = day /\ From(range) = day THEN Undefined
         ELSE IF To(range) = day THEN <<To(range)>>
         ELSE IF From(range) = day THEN Undefined
         ELSE IF From(range) > day THEN <<day, To(range)>>
         ELSE <<From(range), day>>
    ELSE IF HasFrom(range)
    THEN IF day < From(range) THEN <<day, From(range)>>
         ELSE <<From(range), day>>
    ELSE <<day>>

\* the days of the calendar month that holds the date t
MonthDates(t) ==
    {NewDate(getFullYear(t), getMonth(t), day) :
        day \in 1..getDate(NewDate(getFullYear(t), getMonth(t) + 1, 0))}

\* DayPicker with numberOfMonths = 2: the days on display
DisplayedDates(cm) ==
    MonthDates(cm) \cup MonthDates(NewDate(getFullYear(cm), getMonth(cm) + 1, 1))

----------------------------------------------------------------------------
(* The environment: months the user can navigate to, and what the feed returns *)

DisplayMonths == {NewDate(2025, 10, 1), NewDate(2025, December, 1)}

AllDates == UNION {DisplayedDates(cm) : cm \in DisplayMonths}

\* every range value, well-formed or not, over the dates on display
RangeEvents(cm) ==
    {Undefined} \cup {<<f>> : f \in DisplayedDates(cm)}
                \cup {<<f, t>> : f \in DisplayedDates(cm), t \in DisplayedDates(cm)}

\* a successful response for the month that holds `date`: one record per room for
\* that month and one for the month after it
Payloads(date) ==
    LET year == getFullYear(date)
        month == getMonth(date) + 1
        nextMonthDate == NewDate(year, month, 1)
        nextYear == getFullYear(nextMonthDate)
        nextMonth == getMonth(nextMonthDate) + 1
    IN  {[data |->
            {[roomNumber |-> r, year |-> year, month |-> month, availableDates |-> f[r][1]] :
                 r \in RoomNumbers}
            \cup
            {[roomNumber |-> r, year |-> nextYear, month |-> nextMonth, availableDates |-> f[r][2]] :
                 r \in RoomNumbers}] :
         f \in [RoomNumbers -> (SUBSET (1..daysInMonth(year, month)))
                                 \X (SUBSET (1..daysInMonth(nextYear, nextMonth)))]}

\* a room number that roomsConfig has no entry for
UnconfiguredRoom == 8

\* the record of one room for one month
RoomRecord(r, year, month, days) ==
    [roomNumber |-> r, year |-> year, month |-> month, availableDates |-> days]

\* AvailabilityResponse values for the month that holds `date` and the month after
\* it: room 1 with any availability in the first month and free up to some day of
\* the second; the Mirador cottage with no record, a record
\* for the first month only, or records for both months, free throughout or never;
\* and an unconfigured room absent, free throughout, or free on the first two days
IndexPayloads(date) ==
    LET year == getFullYear(date)
        month == getMonth(date) + 1
        nextMonthDate == NewDate(year, month, 1)
        nextYear == getFullYear(nextMonthDate)
        nextMonth == getMonth(nextMonthDate) + 1
        days == 1..daysInMonth(year, month)
        nextDays == 1..daysInMonth(nextYear, nextMonth)
    IN  {[data |-> {RoomRecord(1, year, month, a), RoomRecord(1, nextYear, nextMonth, b)}
                      \cup m \cup u] :
            a \in SUBSET days,
            b \in {1..k : k \in 0..daysInMonth(nextYear, nextMonth)},
            m \in {{}, {RoomRecord(MiradorRoom, year, month, days)},
                       {RoomRecord(MiradorRoom, year, month, days),
                        RoomRecord(MiradorRoom, nextYear, nextMonth, nextDays)},
                       {RoomRecord(MiradorRoom, year, month, {}),
                        RoomRecord(MiradorRoom, nextYear, nextMonth, {})}},
            u \in {{}, {RoomRecord(UnconfiguredRoom, year, month, days),
                        RoomRecord(UnconfiguredRoom, nextYear, nextMonth, nextDays)},
                       {RoomRecord(UnconfiguredRoom, year, month, {1, 2}),
                        RoomRecord(UnconfiguredRoom, nextYear, nextMonth, {})}}}

\* the selections the controller can hold over the dates on display
StayRanges(cm) ==
    {Undefined} \cup {<<f>> : f \in DisplayedDates(cm)}
                \cup {r \in {<<f, t>> : f \in DisplayedDates(cm), t \in DisplayedDates(cm)} :
                         To(r) > From(r)}

\* the day of the clock change, where the time zone has one: the second day
\* of the first month on display
ClockChangeDay == NewDate(2025, 10, 2)

\* time zones: no clock change on display, or one day of 23 or of 25 hours
ClockChanges ==
    {NoClockChange} \cup {<<ClockChangeDay, hours>> : hours \in {HoursPerDay - 1, HoursPerDay + 1}}

\* the guestInfo values of the hook: none, or a party of adults and children
GuestInfos ==
    {Undefined} \cup {[adults |-> a, children |-> c] : a \in 1..MaxAdults, c \in 0..MaxChildren}

RECURSIVE Sum(_, _)
Sum(f, S) == IF S = {} THEN 0 ELSE LET x == CHOOSE x \in S : TRUE IN f[x] + Sum(f, S \ {x})

----------------------------------------------------------------------------
(* The embed script of the host page: window.HotelBookingWidget *)

\* the elements of the host page that widgets are created in
ContainerElements == {"a", "b"}

\* widgets are numbered in the order of their creation
WidgetIds == 1..MaxWidgets

NoWidget == <<>>

\* iframeDoc.body.scrollHeight as the script reads it; 0 while there is no content
ContentHeights == {0, 300}

\* the padding added to the content height
HeightPadding == 20

\* variant: destroy calls resizeObserver.disconnect() without the test
disconnectUntested(resizeObserver) == TRUE

\* if (resizeObserver) in destroy: the test that guards resizeObserver.disconnect()
disconnectTested(resizeObserver) == resizeObserver # <<>>

\* the host page before the script has created a widget
NoWidgets ==
    /\ containers = [c \in ContainerElements |-> {}]
    /\ widgets = [w \in WidgetIds |-> NoWidget]
    /\ intervals = {}
    /\ observing = {}
    /\ listeners = {}
    /\ call = <<>>

\* createWidget(container, options): the container is cleared and given the
\* iframe, the observer, the interval (setInterval returns a fresh id) and the
\* window listeners are set up
createWidget(w, c, width) ==
    /\ widgets[w] = NoWidget
    /\ \A v \in WidgetIds : v < w => widgets[v] # NoWidget
    /\ containers' = [containers EXCEPT ![c] = {w}]
    /\ widgets' = [widgets EXCEPT ![w] =
                      [container |-> c,
                       heightInterval |-> <<w>>,
                       resizeObserver |-> IF hasResizeObserver THEN <<w>> ELSE <<>>,
                       width |-> width,
                       height |-> 0]]
    /\ intervals' = intervals \cup {w}
    /\ observing' = IF hasResizeObserver THEN observing \cup {w} ELSE observing
    /\ listeners' = listeners \cup {<<"message", w>>, <<"resize", w>>, <<"orientationchange", w>>}
    /\ call' = [method |-> "create", widget |-> w, threw |-> FALSE]
    /\ UNCHANGED <<hasResizeObserver, pickerVars, clockChange, formVars, cacheVars>>

\* the interval of widget w fires: the iframe takes the height of its content
\* when that can be read and is positive
heightCheck(w, height) ==
    /\ w \in intervals
    /\ widgets' = [widgets EXCEPT ![w].height = IF height > 0 THEN height + HeightPadding ELSE @]
    /\ UNCHANGED <<hasResizeObserver, containers, intervals, observing, listeners, call,
                   pickerVars, clockChange, formVars, cacheVars>>

\* widget.updateOptions({width})
updateOptions(w, width) ==
    /\ widgets[w] # NoWidget
    /\ widgets' = [widgets EXCEPT ![w].width = width]
    /\ call' = [method |-> "updateOptions", widget |-> w, threw |-> FALSE]
    /\ UNCHANGED <<hasResizeObserver, containers, intervals, observing, listeners,
                   pickerVars, clockChange, formVars, cacheVars>>

\* widget.refresh(): the iframe loads its document again
refresh(w) ==
    /\ widgets[w] # NoWidget
    /\ widgets' = [widgets EXCEPT ![w].height = 0]
    /\ call' = [method |-> "refresh", widget |-> w, threw |-> FALSE]
    /\ UNCHANGED <<hasResizeObserver, containers, intervals, observing, listeners,
                   pickerVars, clockChange, formVars, cacheVars>>

\* widget.destroy(), statement by statement: calling disconnect on null throws a
\* TypeError and the statements after it do not run
destroy(w) ==
    /\ widgets[w] # NoWidget
    /\ LET self == widgets[w]
           disconnects == disconnectTested(self.resizeObserver)
           throws == disconnects /\ self.resizeObserver = <<>>
       IN  /\ intervals' = IF self.heightInterval # <<>>
                           THEN intervals \ {self.heightInterval[1]}
                           ELSE intervals
           /\ observing' = IF disconnects /\ ~throws
                           THEN observing \ {self.resizeObserver[1]}
                           ELSE observing
           /\ listeners' = IF throws THEN listeners
                           ELSE listeners \ {<<"resize", w>>, <<"orientationchange", w>>}
           /\ containers' = IF throws THEN containers
                            ELSE [containers EXCEPT ![self.container] = {}]
           /\ call' = [method |-> "destroy", widget |-> w, threw |-> throws]
    /\ UNCHANGED <<hasResizeObserver, widgets, pickerVars, clockChange, formVars, cacheVars>>

NextWidget ==
    \/ \E w \in WidgetIds : \E c \in ContainerElements : \E width \in {"100%", "800px"} :
           createWidget(w, c, width)
    \/ \E w \in WidgetIds : \E height \in ContentHeights : heightCheck(w, height)
    \/ \E w \in WidgetIds : \E width \in {"100%", "800px"} : updateOptions(w, width)
    \/ \E w \in WidgetIds : refresh(w)
    \/ \E w \in WidgetIds : destroy(w)

----------------------------------------------------------------------------
(* googleSheets.ts: the module-level cache of spreadsheet tabs *)

\* keep only last 10 entries
CacheLimit == 10

\* CACHE_DURATION, twenty-four hours, in clock ticks of a day
CacheDuration == 1

\* cache keys (spreadsheet id and key prefix): enough for a full cache and the
\* calls under way
CacheKeys == 1..(CacheLimit + MaxCalls + 1)

\* tabCache.get(key): <<>> or <<entry>>
cacheGet(entries, key) ==
    LET at == {i \in 1..Len(entries) : entries[i].key = key}
    IN  IF at = {} THEN <<>> ELSE <<entries[CHOOSE i \in at : TRUE]>>

\* tabCache.set(key, entry): a key the Map holds keeps its place, a new key
\* goes to the end
cacheSet(entries, entry) ==
    IF cacheGet(entries, entry.key) # <<>>
    THEN [i \in 1..Len(entries) |-> IF entries[i].key = entry.key THEN entry ELSE entries[i]]
    ELSE Append(entries, entry)

\* the index of entries[i] after entries.sort((a, b) => b[1].timestamp - a[1].timestamp),
\* counted from 0: the sort is stable, entries of equal timestamp keep their order
positionSorted(entries, i) ==
    Cardinality({j \in 1..Len(entries) :
                    \/ entries[j].timestamp > entries[i].timestamp
                    \/ entries[j].timestamp = entries[i].timestamp /\ j < i})

\* toDelete: entries.slice(10) of the sorted entries when the Map holds more than 10
toDelete(entries) ==
    IF Len(entries) > CacheLimit
    THEN {entries[i] : i \in {j \in 1..Len(entries) : positionSorted(entries, j) >= CacheLimit}}
    ELSE {}

\* the server module as it is loaded
CacheAtRest ==
    /\ tabCache = <<>>
    /\ fetching = {}
    /\ now = 0
    /\ sets = 0
    /\ lastSet = <<>>

\* the key of a call: the key the Map has held longest, a key that is being
\* fetched, or the first key that is neither cached nor being fetched
Requested ==
    LET cached == {tabCache[i].key : i \in 1..Len(tabCache)}
        asked == {c.key : c \in fetching}
    IN  (IF tabCache = <<>> THEN {} ELSE {tabCache[1].key})
          \cup asked
          \cup {Min(CacheKeys \ (cached \cup asked))}

\* getCachedTabs up to its await: `now` is read, a valid entry is returned, and
\* otherwise the spreadsheet is asked for its tabs
getCachedTabs(key) ==
    /\ Cardinality(fetching) < MaxCalls
    /\ sets + Cardinality(fetching) < MaxSets
    /\ LET cached == cacheGet(tabCache, key)
       IN  fetching' = IF cached # <<>> /\ cached[1].expiresAt > now
                       THEN fetching
                       ELSE fetching \cup {[key |-> key, now |-> now]}
    /\ UNCHANGED <<tabCache, now, sets, lastSet, pickerVars, clockChange, formVars, widgetVars>>

\* the spreadsheet answers: the entry is stored with the time read before the
\* await, and the cache is cleaned up
tabsFetched(c) ==
    /\ c \in fetching
    /\ fetching' = fetching \ {c}
    /\ LET stored == cacheSet(tabCache, [key |-> c.key, timestamp |-> c.now,
                                         expiresAt |-> c.now + CacheDuration])
           deleted == toDelete(stored)
       IN  /\ tabCache' = SelectSeq(stored, LAMBDA e : e \notin deleted)
           /\ lastSet' = [key |-> c.key, deleted |-> deleted]
    /\ sets' = sets + 1
    /\ UNCHANGED <<now, pickerVars, clockChange, formVars, widgetVars>>

\* the request to the spreadsheet fails and getCachedTabs throws
tabsFailed(c) ==
    /\ c \in fetching
    /\ fetching' = fetching \ {c}
    /\ UNCHANGED <<tabCache, now, sets, lastSet, pickerVars, clockChange, formVars, widgetVars>>

\* time passes on the server
Tick ==
    /\ now < MaxNow
    /\ now' = now + 1
    /\ UNCHANGED <<tabCache, fetching, sets, lastSet, pickerVars, clockChange, formVars, widgetVars>>

NextCache ==
    \/ \E key \in Requested : getCachedTabs(key)
    \/ \E c \in fetching : tabsFetched(c)
    \/ \E c \in fetching : tabsFailed(c)
    \/ Tick

\* the host page and the server before anything has happened there
AtRestElsewhere ==
    /\ hasResizeObserver = TRUE
    /\ NoWidgets
    /\ CacheAtRest

----------------------------------------------------------------------------
(* BookingForm and BookingService.  Strings are sequences of characters. *)

\* \s
Whitespace == {" "}

\* [\d\s\-\(\)]
PhoneChars == {"0", "1", "2", "3", "4", "5", "6", "7", "8", "9"} \cup Whitespace \cup {"-", "(", ")"}

\* the {10,} of the phone pattern
MinPhoneLength == 10

RECURSIVE trimStart(_)
trimStart(str) ==
    IF str # <<>> /\ Head(str) \in Whitespace THEN trimStart(Tail(str)) ELSE str

RECURSIVE trimEnd(_)
trimEnd(str) ==
    IF str # <<>> /\ str[Len(str)] \in Whitespace
    THEN trimEnd(SubSeq(str, 1, Len(str) - 1))
    ELSE str

\* String.prototype.trim
trim(str) == trimEnd(trimStart(str))

\* /^\+?[\d\s\-\(\)]{10,}$/.test(str)
matchesPhonePattern(str) ==
    LET rest == IF str # <<>> /\ Head(str) = "+" THEN Tail(str) ELSE str
    IN  /\ Len(rest) >= MinPhoneLength
        /\ \A i \in 1..Len(rest) : rest[i] \in PhoneChars

\* validateForm: the keys of newErrors
validateForm(data) ==
    (IF trim(data.name) = <<>> THEN {"name"} ELSE {})
      \cup (IF trim(data.phone) = <<>> \/ ~matchesPhonePattern(trim(data.phone))
            THEN {"phone"} ELSE {})
      \cup (IF data.adults < 1 THEN {"adults"} ELSE {})

\* the local day that holds the time
localDay(time) ==
    CHOOSE d \in ((time \div HoursPerDay) - 1)..((time \div HoursPerDay) + 1) :
        getTime(d) <= time /\ time < getTime(d + 1)

\* formatDate: the fields of the zero-padded string YYYY-MM-DD of the local date
formatDate(time) ==
    LET d == localDay(time)
    IN  <<getFullYear(d), getMonth(d) + 1, getDate(d)>>

\* formatBookingData; children, pets, the room and isMirador are passed through
\* unread and are left out
formatBookingData(data, from, to) ==
    [startDate |-> formatDate(from), endDate |-> formatDate(to),
     name |-> data.name, phone |-> data.phone, adults |-> data.adults]

\* endDate of handleSubmit: selectedRange.to, or selectedRange.from plus 24 hours
endDate(range) ==
    IF HasTo(range) THEN getTime(To(range)) ELSE getTime(From(range)) + HoursPerDay

\* the try block of submitBooking: [return |-> result] or [throw |-> message]
tryBlock(outcome) ==
    IF "rejected" \in DOMAIN outcome THEN [throw |-> outcome.rejected]
    ELSE IF outcome.body = <<>> THEN [throw |-> "Unexpected token in JSON"]
    ELSE LET result == outcome.body[1]
         IN  IF ~outcome.ok
             THEN [throw |-> IF result.error # <<>> /\ result.error[1] # ""
                             THEN result.error[1]
                             ELSE "HTTP error! status"]
             ELSE [return |-> result]

\* submitBooking: what is thrown in the try block is returned as a failure
submitBooking(outcome) ==
    LET done == tryBlock(outcome)
    IN  IF "throw" \in DOMAIN done
        THEN [return |-> [success |-> FALSE, error |-> <<done.throw>>]]
        ELSE done

\* the texts typed into the name field
Names == {<<>>, <<" ">>, <<"A", "n", "n">>}

\* the texts typed into the phone field: empty, blank, ten digits, ten digits in
\* blanks, nine digits, the plus sign with nine and with twelve digits, ten
\* characters with a letter, and digits grouped by brackets, blanks and a dash
Phones ==
    {<<>>, <<" ", " ">>,
     <<"0", "5", "0", "1", "2", "3", "4", "5", "6", "7">>,
     <<" ", "0", "5", "0", "1", "2", "3", "4", "5", "6", "7", " ">>,
     <<"0", "5", "0", "1", "2", "3", "4", "5", "6">>,
     <<"+", "3", "8", "0", "5", "0", "1", "2", "3", "4">>,
     <<"+", "3", "8", "0", "5", "0", "1", "2", "3", "4", "5", "6", "7">>,
     <<"0", "5", "0", "1", "2", "3", "4", "5", "6", "x">>,
     <<"(", "0", "5", "0", ")", " ", "1", "2", "3", "-", "4", "5">>}

\* what fetch and response.json() can do: the request is rejected, or a response
\* arrives, ok or not, with a body that is JSON or is not
FetchOutcomes ==
    {[rejected |-> "Failed to fetch"]}
      \cup {[ok |-> ok, body |-> body] :
               ok \in BOOLEAN,
               body \in {<<>>} \cup {<<[success |-> success, error |-> error]>> :
                                       success \in BOOLEAN,
                                       error \in {<<>>, <<"">>, <<"Room is taken">>}}}

\* the form as it is mounted
FormAtRest ==
    /\ formData = [name |-> <<>>, phone |-> <<>>, adults |-> 1]
    /\ errors = {}
    /\ isSubmitting = FALSE
    /\ handed = <<>>
    /\ response = <<>>

\* the booking went through and the success page took the place of the form
Succeeded ==
    /\ response # <<>>
    /\ "return" \in DOMAIN response[1].done
    /\ response[1].done.return.success

\* the user types into the name field
SetName(name) ==
    /\ ~Succeeded
    /\ formData' = [formData EXCEPT !.name = name]
    /\ UNCHANGED <<errors, isSubmitting, handed, response, pickerVars, clockChange, widgetVars, cacheVars>>

\* the user types into the phone field
SetPhone(phone) ==
    /\ ~Succeeded
    /\ formData' = [formData EXCEPT !.phone = phone]
    /\ UNCHANGED <<errors, isSubmitting, handed, response, pickerVars, clockChange, widgetVars, cacheVars>>

\* handleNumberChange("adults", delta) from the two buttons; the minus button is
\* disabled at one adult
handleNumberChange(delta) ==
    /\ ~Succeeded
    /\ delta = -1 => formData.adults > 1
    /\ delta = 1 => formData.adults < MaxAdults
    /\ formData' = [formData EXCEPT !.adults = IF @ + delta < 0 THEN 0 ELSE @ + delta]
    /\ UNCHANGED <<errors, isSubmitting, handed, response, pickerVars, clockChange, widgetVars, cacheVars>>

\* handleSubmit up to the call of BookingService; the submit button is disabled
\* while a submission is under way
HandleSubmit ==
    /\ ~Succeeded
    /\ ~isSubmitting
    /\ errors' = validateForm(formData)
    /\ IF errors' # {} \/ ~HasFrom(selectedRange)
       THEN /\ handed' = <<>>
            /\ UNCHANGED <<isSubmitting, response>>
       ELSE /\ handed' = <<formatBookingData(formData, getTime(From(selectedRange)),
                                              endDate(selectedRange))>>
            /\ isSubmitting' = TRUE
            /\ response' = <<>>
    /\ UNCHANGED <<formData, pickerVars, clockChange, widgetVars, cacheVars>>

\* submitBooking ends and handleSubmit resumes
Respond(outcome) ==
    /\ isSubmitting
    /\ response' = <<[outcome |-> outcome, done |-> submitBooking(outcome)]>>
    /\ isSubmitting' = FALSE
    /\ UNCHANGED <<formData, errors, handed, pickerVars, clockChange, widgetVars, cacheVars>>

\* the form opened on a room offered for the selection
InitBooking ==
    /\ currentMonth = NewDate(2025, 10, 1)
    /\ selectedRange \in StayRanges(currentMonth) \ {Undefined}
    /\ monthlyAvailability \in {ma \in Payloads(currentMonth) :
                                   \A rec \in ma.data :
                                       rec.availableDates = 1..daysInMonth(rec.year, rec.month)}
    /\ event = <<(IF HasTo(selectedRange) THEN "Open" ELSE "Empty"), selectedRange>>
    /\ notified = <<selectedRange>>
    /\ monthlyLoading = FALSE
    /\ inFlight = [m \in DisplayMonths |-> 0]
    /\ clockChange \in ClockChanges
    /\ FormAtRest
    /\ AtRestElsewhere

NextBooking ==
    \/ \E name \in Names : SetName(name)
    \/ \E phone \in Phones : SetPhone(phone)
    \/ \E delta \in {-1, 1} : handleNumberChange(delta)
    \/ HandleSubmit
    \/ \E outcome \in FetchOutcomes : Respond(outcome)

BookingSpec == InitBooking /\ [][NextBooking]_vars

\* the picker as it is mounted: the first fetch is under way
PickerMounted ==
    /\ currentMonth = NewDate(2025, 10, 1)
    /\ selectedRange = Undefined
    /\ monthlyAvailability = Null
    /\ monthlyLoading = TRUE
    /\ inFlight = [m \in DisplayMonths |-> IF m = currentMonth THEN 1 ELSE 0]
    /\ event = <<>>
    /\ notified = <<>>
    /\ clockChange = NoClockChange

InitWidget ==
    /\ hasResizeObserver \in BOOLEAN
    /\ NoWidgets
    /\ PickerMounted
    /\ FormAtRest
    /\ CacheAtRest

\* the host page with the embed script
WidgetSpec == InitWidget /\ [][NextWidget]_vars

InitCache ==
    /\ CacheAtRest
    /\ PickerMounted
    /\ FormAtRest
    /\ hasResizeObserver = TRUE
    /\ NoWidgets

\* the server's tab cache under getCachedTabs calls
CacheSpec == InitCache /\ [][NextCache]_vars

----------------------------------------------------------------------------
(* Actions *)

Init ==
    /\ currentMonth \in DisplayMonths
    /\ selectedRange = Undefined
    /\ monthlyAvailability = Null
    /\ monthlyLoading = TRUE
    /\ inFlight = [m \in DisplayMonths |-> IF m = currentMonth THEN 1 ELSE 0]
    /\ event = <<>>
    /\ notified = <<>>
    /\ clockChange = NoClockChange
    /\ FormAtRest
    /\ AtRestElsewhere

\* "Empty", "Open" or "Closed"
KindOf(sel) == IF ~HasFrom(sel) THEN "Empty" ELSE IF HasTo(sel) THEN "Closed" ELSE "Open"

\* handleRangeSelect(range) as one event
Select(range) ==
    LET out == handleRangeSelect(monthlyAvailability, selectedRange, range)
    IN  /\ selectedRange' = out.selectedRange
        /\ notified' = out.notified
        /\ event' = <<KindOf(selectedRange), range>>
        /\ UNCHANGED <<monthlyAvailability, monthlyLoading, inFlight, currentMonth, elsewhere>>

\* the user clicks an enabled day of the calendar
Pick(d) ==
    /\ ~monthlyLoading
    /\ d \in DisplayedDates(currentMonth)
    /\ d \notin getAllDisabledDates(monthlyAvailability, currentMonth, selectedRange, FALSE)
    /\ Select(AddToRange(d, selectedRange))

\* handleRangeSelect called with an arbitrary argument
SelectEvent(range) == Select(range)

\* handleMonthChange(newMonth), and the effect that fetches the new month
HandleMonthChange(newMonth) ==
    /\ newMonth # currentMonth
    /\ Sum(inFlight, DisplayMonths) < MaxInFlight
    /\ currentMonth' = NewDate(getFullYear(newMonth), getMonth(newMonth), 1)
    /\ monthlyLoading' = TRUE
    /\ inFlight' = [inFlight EXCEPT ![currentMonth'] = @ + 1]
    /\ UNCHANGED <<monthlyAvailability, selectedRange, event, notified, elsewhere>>

\* variant: the records of the response are added to those already held
MergedInto(prior, data) ==
    IF prior = Null THEN data ELSE [data |-> prior.data \cup data.data]

\* setMonthlyAvailability(data): the response takes the place of the snapshot
Replaced(prior, data) == data

\* a fetch resolves with success
FetchSucceed(m, payload) ==
    /\ inFlight[m] > 0
    /\ inFlight' = [inFlight EXCEPT ![m] = @ - 1]
    /\ monthlyAvailability' = Replaced(monthlyAvailability, payload)
    /\ monthlyLoading' = FALSE
    /\ UNCHANGED <<currentMonth, selectedRange, event, notified, elsewhere>>

\* a fetch fails: network error, non-OK status or success = false
FetchFail(m) ==
    /\ inFlight[m] > 0
    /\ inFlight' = [inFlight EXCEPT ![m] = @ - 1]
    /\ monthlyAvailability' = Null
    /\ monthlyLoading' = FALSE
    /\ UNCHANGED <<currentMonth, selectedRange, event, notified, elsewhere>>

Fetching ==
    \/ \E m \in DisplayMonths : HandleMonthChange(m)
    \/ \E m \in DisplayMonths : \E payload \in Payloads(m) : FetchSucceed(m, payload)
    \/ \E m \in DisplayMonths : FetchFail(m)

Next ==
    \/ \E d \in AllDates : Pick(d)
    \/ Fetching

Spec == Init /\ [][Next]_vars

\* the hook alone: navigation and the fetches it starts
FetchSpec == Init /\ [][Fetching]_vars

\* the widget at rest after a fetch has resolved, with or without data
InitHandler ==
    /\ currentMonth \in DisplayMonths
    /\ selectedRange = Undefined
    /\ monthlyAvailability \in {Null} \cup Payloads(currentMonth)
    /\ monthlyLoading = FALSE
    /\ inFlight = [m \in DisplayMonths |-> 0]
    /\ event = <<>>
    /\ notified = <<>>
    /\ clockChange = NoClockChange
    /\ FormAtRest
    /\ AtRestElsewhere

NextHandler == \E range \in RangeEvents(currentMonth) : SelectEvent(range)

HandlerSpec == InitHandler /\ [][NextHandler]_vars

\* clicks on the calendar at rest: no navigation, no fetch under way
NextPick == \E d \in AllDates : Pick(d)

PickSpec == InitHandler /\ [][NextPick]_vars

\* the widget at rest with a check-in open: the check-in was picked, and the user
\* may have navigated to another month since (the fetch of that month has resolved)
InitView ==
    /\ currentMonth \in DisplayMonths
    /\ \E f \in AllDates : /\ selectedRange = <<f>>
                           /\ event = <<"Empty", <<f>>>>
                           /\ notified = <<(<<f>>)>>
    /\ monthlyAvailability \in {Null} \cup Payloads(currentMonth)
    /\ monthlyLoading = FALSE
    /\ inFlight = [m \in DisplayMonths |-> 0]
    /\ clockChange = NoClockChange
    /\ FormAtRest
    /\ AtRestElsewhere

ViewSpec == InitView /\ [][NextPick]_vars

\* the widget at rest with any selection, over a snapshot of several rooms
InitIndex ==
    /\ currentMonth \in DisplayMonths
    /\ monthlyAvailability \in {Null} \cup IndexPayloads(currentMonth)
    /\ selectedRange \in StayRanges(currentMonth)
    /\ event = IF selectedRange = Undefined THEN <<>>
               ELSE <<(IF HasTo(selectedRange) THEN "Open" ELSE "Empty"), selectedRange>>
    /\ notified = IF selectedRange = Undefined THEN <<>> ELSE <<selectedRange>>
    /\ monthlyLoading = FALSE
    /\ inFlight = [m \in DisplayMonths |-> 0]
    /\ clockChange \in ClockChanges
    /\ FormAtRest
    /\ AtRestElsewhere

\* the selection is cleared: DayPicker passes undefined
NextClear == SelectEvent(Undefined)

IndexSpec == InitIndex /\ [][NextClear]_vars

----------------------------------------------------------------------------
(* The availability endpoint: GET /api/availability?date=... *)

\* the sheet rows that hold rooms: for (roomIndex = 0; roomIndex < 6; roomIndex++)
RoomRows == 6

\* the month has no tab in the spreadsheet
NoTab == <<>>

\* a row of the grid without a room name
NoRow == <<>>

\* variant: the synthesized records leave the days out of both lists
noDatesAsOccupied(year, month) == {}

\* getAllDatesAsOccupied(year, month)
getAllDatesAsOccupied(year, month) == 1..daysInMonth(year, month)

\* variant: the loop over the rows also reaches a seventh row
sevenRoomIndexes == 0..RoomRows

\* the values roomIndex takes in the loop over the rows
roomIndexes == 0..(RoomRows - 1)

\* getRoomAvailabilityOptimized: one record per row that has a room name; a cell
\* counts for its day when the row reaches that column, white cells are available.
\* A row is NoRow or [cells |-> number of day cells, white |-> days with a white cell].
getRoomAvailabilityOptimized(grid, year, month) ==
    IF grid = <<>> THEN {}
    ELSE {[roomNumber |-> roomIndex + 1,
           availableDates |-> {date \in 1..Min({grid[roomIndex + 1].cells, daysInMonth(year, month)}) :
                                  date \in grid[roomIndex + 1].white},
           occupiedDates |-> {date \in 1..Min({grid[roomIndex + 1].cells, daysInMonth(year, month)}) :
                                  date \notin grid[roomIndex + 1].white}] :
             roomIndex \in {i \in roomIndexes : i + 1 \in DOMAIN grid /\ grid[i + 1] # NoRow}}

\* the records GET builds for one month: those parsed from the month's tab, or
\* one fully occupied record per room when the month has no tab
MonthRecords(tab, year, month) ==
    IF tab # NoTab
    THEN {[roomNumber |-> room.roomNumber,
           availableDates |-> room.availableDates,
           occupiedDates |-> room.occupiedDates,
           year |-> year, month |-> month, tabTitle |-> <<tab.title>>] :
             room \in getRoomAvailabilityOptimized(tab.grid, year, month)}
    ELSE {[roomNumber |-> roomNumber,
           availableDates |-> {},
           occupiedDates |-> getAllDatesAsOccupied(year, month),
           year |-> year, month |-> month, tabTitle |-> <<>>] :
             roomNumber \in 1..RoomRows}

\* GET: the body of a successful response, combinedData of the requested month
\* and the month after it; sheet is the pair of the tabs found for the two months
GET(date, sheet) ==
    LET currentYear == getFullYear(date)
        currentMonthNum == getMonth(date) + 1
        nextMonthDate == NewDate(currentYear, currentMonthNum, 1)
        nextYear == getFullYear(nextMonthDate)
        nextMonth == getMonth(nextMonthDate) + 1
    IN  [data |-> MonthRecords(sheet[1], currentYear, currentMonthNum)
                    \cup MonthRecords(sheet[2], nextYear, nextMonth)]

\* the grids read from a tab: no row data at all, or rows of equal width and
\* colouring for the first room alone, for every room but the first, or for all
Grids ==
    {<<>>} \cup
    {[i \in 1..(RoomRows + 1) |-> IF i \in named THEN [cells |-> cells, white |-> white] ELSE NoRow] :
        named \in {{1}, 2..(RoomRows + 1), 1..(RoomRows + 1)},
        cells \in {DaysPerMonth - 1, DaysPerMonth},
        white \in SUBSET (1..DaysPerMonth)}

\* what findTabByDate finds for one month
Tabs == {NoTab} \cup {[title |-> "tab", grid |-> grid] : grid \in Grids}

\* the spreadsheet as the endpoint sees it for one request
Sheets == Tabs \X Tabs

\* a request served by the endpoint resolves in the hook
Served(m) == \E sheet \in Sheets : FetchSucceed(m, GET(m, sheet))

NextEndpoint ==
    \/ \E m \in DisplayMonths : Served(m)
    \/ \E m \in DisplayMonths : FetchFail(m)

\* the first fetch of the hook answered by the endpoint
EndpointSpec == Init /\ [][NextEndpoint]_vars

----------------------------------------------------------------------------
(* Properties *)

\* some record of the snapshot lists the date t as available
Listed(ma, t) ==
    /\ ma # Null
    /\ \E rec \in ma.data : /\ rec.year = getFullYear(t)
                            /\ rec.month = getMonth(t) + 1
                            /\ getDate(t) \in rec.availableDates

\* C1: whenever selectedRange is closed, every night d with from <= d < to is
\* listed as available by at least one snapshot record for d's (year, month).
C1_ClosedNightsAvailable ==
    AlreadyComplete(selectedRange) =>
        \A d \in From(selectedRange)..(To(selectedRange) - 1) : Listed(monthlyAvailability, d)

\* C2: every transition of handleRangeSelect into a closed range {from, to} happens
\* only when isRangeValid(from, to - 1 day) is true on the snapshot of that moment.
C2_ClosedOnlyWhenValid ==
    [][(~AlreadyComplete(selectedRange) /\ AlreadyComplete(selectedRange'))
          => isRangeValid(monthlyAvailability, From(selectedRange'), To(selectedRange') - 1)]_vars

\* C3: a closed selectedRange has `to` strictly after `from`, whatever ranges
\* handleRangeSelect has been called with.
C3_ClosedHasOneNight ==
    AlreadyComplete(selectedRange) => To(selectedRange) > From(selectedRange)

\* a well-formed range was offered while a check-in was open and has been closed
C3_Witness ==
    /\ event # <<>>
    /\ event[1] = "Open"
    /\ AlreadyComplete(selectedRange)
    /\ selectedRange = event[2]

\* C4: in state Open or Empty, a range whose from and to are the same instant d
\* leaves the state Open(d), never Closed(d, d).
C4_SameInstantOpens ==
    (event # <<>> /\ event[1] \in {"Open", "Empty"} /\ SameInstant(event[2]))
        => selectedRange = <<From(event[2])>>

\* the check-in day was clicked again while open
C4_Witness ==
    /\ event # <<>>
    /\ event[1] = "Open"
    /\ SameInstant(event[2])
    /\ selectedRange = <<From(event[2])>>

\* C5 as stated: a pick of d while the range is closed leaves the state Open(d).
C5_PickWhileClosedReopens ==
    [][\A d \in DisplayedDates(currentMonth) :
          (AlreadyComplete(selectedRange) /\ Pick(d)) => selectedRange' = <<d>>]_vars

\* C5: a pick while the range is closed resets the selection: the state after the
\* event is Empty and onRangeSelect has been invoked once, with undefined.
C5_PickWhileClosedResets ==
    [][\A d \in DisplayedDates(currentMonth) :
          (AlreadyComplete(selectedRange) /\ Pick(d))
              => (selectedRange' = Undefined /\ notified' = <<Undefined>>)]_vars

\* a day was clicked while a range was closed, and the selection is now empty
C5_Witness ==
    /\ event # <<>>
    /\ event[1] = "Closed"
    /\ HasFrom(event[2])
    /\ selectedRange = Undefined
    /\ notified = <<Undefined>>

\* the argument is a range of several nights whose stay period is not valid
InvalidStay(ma, range) ==
    /\ HasTo(range)
    /\ To(range) - From(range) > 1
    /\ ~isRangeValid(ma, From(range), To(range) - 1)

\* the argument is a range whose `to` lies before its `from`
Backwards(range) == HasTo(range) /\ To(range) < From(range)

C7_CallbackMatchesState ==
    /\ [](Len(notified) <= 1 /\ (notified # <<>> => notified[1] = selectedRange))
    /\ [][selectedRange' # selectedRange => notified' = <<selectedRange'>>]_vars

\* a first pick: the state became Open(d) and the callback got that same range
C7_Witness ==
    /\ event # <<>>
    /\ event[1] = "Empty"
    /\ KindOf(selectedRange) = "Open"
    /\ notified = <<selectedRange>>

OccupiedAfter(ma, checkIn) ==
    {t \in MonthDates(checkIn)
             \cup MonthDates(NewDate(getFullYear(checkIn), getMonth(checkIn) + 1, 1)) :
        t > checkIn /\ ~Listed(ma, t)}

\* C9: for every snapshot and check-in date, findFirstAllowedCheckoutDate returns
\* the earliest date after checkIn, in checkIn's month or the month after it, that no
\* record lists as available, and null only if there is no such date.
C9_FirstOccupiedDateFound ==
    monthlyAvailability # Null =>
        \A checkIn \in AllDates :
            findFirstAllowedCheckoutDate(monthlyAvailability, checkIn)
                = IF OccupiedAfter(monthlyAvailability, checkIn) = {} THEN <<>>
                  ELSE <<Min(OccupiedAfter(monthlyAvailability, checkIn))>>

\* C10: while Open(D) with D + 1 completely occupied, findFirstAllowedCheckoutDate(D)
\* returns D + 1 and the disabled set contains neither D nor D + 1.
C10_NextDayBoundary ==
    (/\ KindOf(selectedRange) = "Open"
     /\ monthlyAvailability # Null
     /\ ~Listed(monthlyAvailability, From(selectedRange) + 1))
        => LET D == From(selectedRange)
           IN  /\ findFirstAllowedCheckoutDate(monthlyAvailability, D) = <<D + 1>>
               /\ D \notin getAllDisabledDates(monthlyAvailability, currentMonth, selectedRange, FALSE)
               /\ (D + 1) \notin getAllDisabledDates(monthlyAvailability, currentMonth, selectedRange, FALSE)

\* the disabled modifier passed to the calendar
Disabled == getAllDisabledDates(monthlyAvailability, currentMonth, selectedRange, FALSE)

\* C11: while Open(checkIn) with checkIn in one of the two displayed months and a
\* snapshot loaded, every date of either displayed month before checkIn is disabled,
\* for every displayed month, December included.
C11_BeforeCheckInDisabled ==
    (/\ KindOf(selectedRange) = "Open"
     /\ From(selectedRange) \in DisplayedDates(currentMonth)
     /\ monthlyAvailability # Null)
        => \A d \in DisplayedDates(currentMonth) : d < From(selectedRange) => d \in Disabled

\* findFirstAllowedCheckoutDate for the open check-in: <<>> or <<B>>
Boundary == findFirstAllowedCheckoutDate(monthlyAvailability, From(selectedRange))

\* C12: while Open(checkIn) with a first-allowed-checkout boundary B, every date of
\* the two displayed months after B is disabled, for every displayed month, the
\* December-January window included.
C12_AfterBoundaryDisabled ==
    (KindOf(selectedRange) = "Open" /\ Boundary # <<>>)
        => \A d \in DisplayedDates(currentMonth) : d > Boundary[1] => d \in Disabled

\* C13: while Open(checkIn) the disabled set never contains checkIn, the day after
\* it, or the first allowed check-out date, even when these dates are completely
\* occupied or were added by the smart rules.
C13_CarveOutsEnabled ==
    KindOf(selectedRange) = "Open"
        => /\ From(selectedRange) \notin Disabled
           /\ (From(selectedRange) + 1) \notin Disabled
           /\ (Boundary # <<>> => Boundary[1] \notin Disabled)

\* a check-in is open, its boundary lies later than the next day and is completely
\* occupied, the check-in itself is smart-disabled, and both stay selectable
C13_Witness ==
    /\ KindOf(selectedRange) = "Open"
    /\ Boundary # <<>>
    /\ Boundary[1] > From(selectedRange) + 1
    /\ Boundary[1] \in getCompletelyOccupiedDates(monthlyAvailability, FALSE, currentMonth)
    /\ From(selectedRange) \in getSmartDisabledDates(monthlyAvailability, currentMonth, selectedRange)
    /\ Boundary[1] \notin Disabled
    /\ From(selectedRange) \notin Disabled

\* C14: when the range is Empty or Closed the disabled set is exactly
\* getCompletelyOccupiedDates of the two displayed months, and
\* getSmartDisabledDates contributes no date.
C14_OnlyOccupiedWhenNotOpen ==
    KindOf(selectedRange) \in {"Empty", "Closed"}
        => /\ Disabled = getCompletelyOccupiedDates(monthlyAvailability, FALSE, currentMonth)
           /\ getSmartDisabledDates(monthlyAvailability, currentMonth, selectedRange) = {}

\* a range has been closed and a displayed date before its check-in is selectable
C14_Witness ==
    /\ KindOf(selectedRange) = "Closed"
    /\ event # <<>>
    /\ event[1] = "Open"
    /\ monthlyAvailability # Null
    /\ \E d \in DisplayedDates(currentMonth) : d < From(selectedRange) /\ d \notin Disabled

\* no date after checkIn, up to the end of the two displayed months, is completely
\* occupied: some record lists each of them as available
FreeAfter(ma, cm, checkIn) ==
    \A d \in AllDates :
        (d > checkIn /\ \E e \in DisplayedDates(cm) : d <= e) => Listed(ma, d)

\* C15 as stated: while Open(checkIn) with no completely occupied date after
\* checkIn through the end of the two displayed months, no date of those months
\* after checkIn is disabled.
C15_FreeRemainderEnabled ==
    (KindOf(selectedRange) = "Open"
       /\ FreeAfter(monthlyAvailability, currentMonth, From(selectedRange)))
        => \A d \in DisplayedDates(currentMonth) : d > From(selectedRange) => d \notin Disabled

\* C15: while Open(checkIn) with checkIn in one of the two displayed months and no
\* completely occupied date after checkIn through the end of those months, no date
\* of those months after checkIn is disabled.
C15_FreeRemainderEnabledInView ==
    (KindOf(selectedRange) = "Open"
       /\ From(selectedRange) \in DisplayedDates(currentMonth)
       /\ FreeAfter(monthlyAvailability, currentMonth, From(selectedRange)))
        => \A d \in DisplayedDates(currentMonth) : d > From(selectedRange) => d \notin Disabled

\* a check-in is open in the first displayed month, every later date on display is
\* available and selectable, and the dates before the check-in are disabled
C15_Witness ==
    /\ KindOf(selectedRange) = "Open"
    /\ getMonth(From(selectedRange)) = getMonth(currentMonth)
    /\ From(selectedRange) > currentMonth
    /\ FreeAfter(monthlyAvailability, currentMonth, From(selectedRange))
    /\ \A d \in DisplayedDates(currentMonth) :
           /\ d > From(selectedRange) => d \notin Disabled
           /\ d < From(selectedRange) => d \in Disabled

\* C16: for every snapshot the hook holds once a fetch has resolved, the null
\* snapshot of a failed fetch included, and every (year, month), with no party
\* size given, each day of the month is in exactly one of
\* getAvailableDatesForMonth and getCompletelyOccupiedDatesForMonth.
C16_AvailableOccupiedPartition ==
    ~monthlyLoading =>
        \A isMirador \in BOOLEAN : \A t \in AllDates :
            LET year == getFullYear(t)
                month == getMonth(t) + 1
            IN  (t \in getAvailableDatesForMonth(monthlyAvailability, Undefined, isMirador, year, month))
                  # (t \in getCompletelyOccupiedDatesForMonth(monthlyAvailability, isMirador, year, month))

\* C17: after an availability fetch has failed the controller observes zero
\* available dates, an empty eligible-room list and a fully disabled calendar:
\* every date of the two displayed months is reported completely occupied and is
\* in the disabled set.
C17_FailedFetchFailsClosed ==
    (monthlyAvailability = Null /\ ~monthlyLoading)
        => /\ getAvailableDates(monthlyAvailability, Undefined, FALSE, currentMonth) = {}
           /\ getRoomsForDateRange(monthlyAvailability, Undefined, FALSE, selectedRange) = {}
           /\ DisplayedDates(currentMonth)
                 \subseteq getCompletelyOccupiedDates(monthlyAvailability, FALSE, currentMonth)
           /\ DisplayedDates(currentMonth) \subseteq Disabled

\* the snapshot holds a record of room r for the month of t that lists t's day
ListedFor(ma, r, t) ==
    /\ ma # Null
    /\ \E rec \in ma.data : /\ rec.roomNumber = r
                            /\ rec.year = getFullYear(t)
                            /\ rec.month = getMonth(t) + 1
                            /\ getDate(t) \in rec.availableDates

\* the room numbers that appear in the snapshot
RoomsIn(ma) == IF ma = Null THEN {} ELSE {rec.roomNumber : rec \in ma.data}

\* the nights of a range: from <= d < to, with to taken as from + 1 day when unset
Nights(range) ==
    From(range)..((IF HasTo(range) THEN To(range) ELSE From(range) + 1) - 1)

\* the query as the widget makes it: no party size, no Mirador filter
Rooms == getRoomsForDateRange(monthlyAvailability, Undefined, FALSE, selectedRange)

\* C18: getRoomsForDateRange(range) returns exactly the rooms r such that for every
\* night d of the range the snapshot holds a record for (r, d.year, d.month) whose
\* availableDates contains d.day; a room lacking a record for a required month is
\* not returned.
C18_RoomsFreeEveryNight ==
    HasFrom(selectedRange)
        => Rooms = {r \in RoomsIn(monthlyAvailability) :
                       \A d \in Nights(selectedRange) : ListedFor(monthlyAvailability, r, d)}

\* C19: for a fixed snapshot, party size and check-in, getRoomsForDateRange is
\* non-increasing in the check-out date: for to1 < to2 the rooms for [from, to2) are
\* among those for [from, to1); and the rooms for the open range {from} are those
\* for [from, from + 1 day).
C19_RoomsShrinkWithStay ==
    HasFrom(selectedRange) =>
        \A guestInfo \in GuestInfos : \A isMirador \in BOOLEAN :
            LET from == From(selectedRange)
                rooms(range) == getRoomsForDateRange(monthlyAvailability, guestInfo, isMirador, range)
                returned == rooms(selectedRange)
            IN  /\ HasTo(selectedRange) =>
                     \A to2 \in AllDates :
                         To(selectedRange) < to2 => rooms(<<from, to2>>) \subseteq returned
                /\ ~HasTo(selectedRange) => returned = rooms(<<from, from + 1>>)

\* C20 as stated: a room number that appears in the snapshot and has no entry in
\* roomsConfig is never returned by getRoomsForDateRange, with or without a party size.
C20_UnconfiguredRoomExcluded ==
    \A guestInfo \in GuestInfos : \A isMirador \in BOOLEAN :
        UnconfiguredRoom
            \notin getRoomsForDateRange(monthlyAvailability, guestInfo, isMirador, selectedRange)

\* C20: a room number that appears in the snapshot and has no entry in roomsConfig
\* is not excluded for that: getRoomsForDateRange returns it, with or without a party
\* size, exactly when it is free on every stay date of the range (and the Mirador
\* filter is off).
C20_UnconfiguredRoomReturnedWhenFree ==
    HasFrom(selectedRange) =>
        \A guestInfo \in GuestInfos : \A isMirador \in BOOLEAN :
            (UnconfiguredRoom
                \in getRoomsForDateRange(monthlyAvailability, guestInfo, isMirador, selectedRange))
              <=> /\ ~isMirador
                  /\ UnconfiguredRoom \in RoomsIn(monthlyAvailability)
                  /\ \A d \in stayDatesFrom(From(selectedRange), endDateTime(selectedRange)) :
                         ListedFor(monthlyAvailability, UnconfiguredRoom, d)

\* a party too large for every configured room is offered the unconfigured room alone
C20_Witness ==
    /\ AlreadyComplete(selectedRange)
    /\ 1 \in Rooms
    /\ MiradorRoom \in Rooms
    /\ UnconfiguredRoom \in Rooms
    /\ \E guestInfo \in GuestInfos :
           getRoomsForDateRange(monthlyAvailability, guestInfo, FALSE, selectedRange)
               = {UnconfiguredRoom}

\* the snapshot with the records of every room but the Mirador cottage removed
OnlyMirador(ma) ==
    IF ma = Null THEN Null
    ELSE [data |-> {rec \in ma.data : rec.roomNumber = MiradorRoom}]

\* C21: in Mirador mode every availability decision uses the records of room 7
\* alone: getRoomsForDateRange returns a subset of {7}, the available and the
\* completely occupied dates are those computed from room 7's records, and
\* isRangeValid and findFirstAllowedCheckoutDate do not depend on any other room.
C21_MiradorUsesRoomSevenOnly ==
    LET ma == monthlyAvailability
        ma7 == OnlyMirador(monthlyAvailability)
    IN  /\ \A guestInfo \in GuestInfos :
              /\ getRoomsForDateRange(ma, guestInfo, TRUE, selectedRange) \subseteq {MiradorRoom}
              /\ getAvailableDates(ma, guestInfo, TRUE, currentMonth)
                    = getAvailableDates(ma7, guestInfo, TRUE, currentMonth)
        /\ getCompletelyOccupiedDates(ma, TRUE, currentMonth)
              = getCompletelyOccupiedDates(ma7, TRUE, currentMonth)
        /\ \A from \in DisplayedDates(currentMonth) :
              /\ findFirstAllowedCheckoutDate(ma, from) = findFirstAllowedCheckoutDate(ma7, from)
              /\ \A to \in DisplayedDates(currentMonth) :
                    isRangeValid(ma, from, to) = isRangeValid(ma7, from, to)

\* the availableDates modifier passed to the calendar
AvailableForPicker == getAvailableDatesForPicker(monthlyAvailability, currentMonth, selectedRange)

\* C22: while Open(from) the available-date list handed to the picker contains
\* from + 1 day exactly once; when the range is Empty or Closed the list is
\* getAvailableDates() unchanged.
C22_NextDayOnceForPicker ==
    IF KindOf(selectedRange) = "Open"
    THEN CopiesIn(From(selectedRange) + 1, AvailableForPicker) = 1
    ELSE AvailableForPicker
           = SetToBag(getAvailableDates(monthlyAvailability, Undefined, FALSE, currentMonth))

\* a check-in is open, the day after it is occupied in a loaded snapshot, and the
\* picker's list holds that day once
C22_Witness ==
    /\ KindOf(selectedRange) = "Open"
    /\ monthlyAvailability # Null
    /\ (From(selectedRange) + 1)
          \in getCompletelyOccupiedDates(monthlyAvailability, FALSE, currentMonth)
    /\ CopiesIn(From(selectedRange) + 1, AvailableForPicker) = 1

\* the (year, month) pairs, 1-based, of the month displayed at `date` and the next
MonthsFrom(date) ==
    LET nextMonthDate == NewDate(getFullYear(date), getMonth(date) + 1, 1)
    IN  {<<getFullYear(date), getMonth(date) + 1>>,
         <<getFullYear(nextMonthDate), getMonth(nextMonthDate) + 1>>}

\* the snapshot is one whole response for the month at `date`: its records cover
\* exactly that month and the next, one record per room and month
WholeResponseFor(ma, date) ==
    /\ ma # Null
    /\ {<<rec.year, rec.month>> : rec \in ma.data} = MonthsFrom(date)
    /\ \A a, b \in ma.data :
          (a.roomNumber = b.roomNumber /\ a.year = b.year /\ a.month = b.month) => a = b

\* C23: each response, on resolving, takes the place of the snapshot whole (its
\* payload, or null on failure, never a merge with the prior snapshot), so with
\* several fetches in flight the snapshot left once all have resolved is that of
\* the response that resolved last, whatever the order of issue.
C23_LastResponseWins ==
    [][\A m \in DisplayMonths :
          inFlight'[m] < inFlight[m]
              => (monthlyAvailability' = Null \/ WholeResponseFor(monthlyAvailability', m))]_vars

\* every fetch has resolved and the snapshot is a response for a month that was
\* navigated away from: the fetch issued first resolved last
C23_Witness ==
    /\ Sum(inFlight, DisplayMonths) = 0
    /\ monthlyAvailability # Null
    /\ \E m \in DisplayMonths \ {currentMonth} : WholeResponseFor(monthlyAvailability, m)

\* C24: whenever no availability fetch is in flight and the snapshot is not null,
\* its records cover exactly the displayed month and the month after it, after any
\* sequence of navigations, responses resolving out of order included.
C24_SnapshotCoversDisplayedMonths ==
    (Sum(inFlight, DisplayMonths) = 0 /\ monthlyAvailability # Null)
        => {<<rec.year, rec.month>> : rec \in monthlyAvailability.data} = MonthsFrom(currentMonth)

\* C28: monthlyLoading is true whenever at least one availability fetch is in
\* flight: the completion of one of two overlapping fetches does not clear it.
C28_LoadingWhileFetching ==
    Sum(inFlight, DisplayMonths) > 0 => monthlyLoading

\* the months of the snapshot whose records carry no tab title
NoTabMonths(ma) == {<<rec.year, rec.month>> : rec \in {r \in ma.data : r.tabTitle = <<>>}}

\* C25: for a month without a tab the endpoint returns exactly one record per
\* room number 1..6, each with no available date, every day of the month
\* occupied and a null tab title; on that data the index reports every day of
\* the month as completely occupied and no day as available, for any party.
C25_NoTabMonthFullyOccupied ==
    monthlyAvailability # Null =>
        \A ym \in NoTabMonths(monthlyAvailability) :
            LET year == ym[1]
                month == ym[2]
                days == 1..daysInMonth(year, month)
            IN  /\ {rec \in monthlyAvailability.data : rec.year = year /\ rec.month = month}
                     = {[roomNumber |-> n, availableDates |-> {}, occupiedDates |-> days,
                         year |-> year, month |-> month, tabTitle |-> <<>>] : n \in 1..6}
                /\ \A isMirador \in BOOLEAN :
                       /\ getCompletelyOccupiedDatesForMonth(monthlyAvailability, isMirador, year, month)
                            = {NewDate(year, month - 1, day) : day \in days}
                       /\ \A guestInfo \in GuestInfos \cup {Undefined} :
                              getAvailableDatesForMonth(monthlyAvailability, guestInfo, isMirador,
                                                        year, month) = {}

\* the displayed month has no tab while the month after it has one with a free day
C25_Witness ==
    /\ monthlyAvailability # Null
    /\ <<getFullYear(currentMonth), getMonth(currentMonth) + 1>> \in NoTabMonths(monthlyAvailability)
    /\ \E rec \in monthlyAvailability.data : rec.tabTitle # <<>> /\ rec.availableDates # {}
    /\ getCompletelyOccupiedDatesForMonth(monthlyAvailability, FALSE, getFullYear(currentMonth),
                                          getMonth(currentMonth) + 1)
         = MonthDates(currentMonth)

\* C30: every record of a successful endpoint response has a room number in
\* 1..6, for parsed tabs and for months without a tab alike, so the snapshot
\* holds no record of room 7 and in Mirador mode the available dates and the
\* eligible rooms are empty, for any party and any stay.
C30_NoMiradorRecordFromEndpoint ==
    monthlyAvailability # Null =>
        /\ \A rec \in monthlyAvailability.data : rec.roomNumber \in 1..6
        /\ \A guestInfo \in GuestInfos :
               /\ getAvailableDates(monthlyAvailability, guestInfo, TRUE, currentMonth) = {}
               /\ \A range \in StayRanges(currentMonth) :
                      getRoomsForDateRange(monthlyAvailability, guestInfo, TRUE, range) = {}

\* the endpoint served a tab with free days for all its rooms: dates are
\* available outside Mirador mode
C30_Witness ==
    /\ monthlyAvailability # Null
    /\ {rec.roomNumber : rec \in {r \in monthlyAvailability.data : r.tabTitle # <<>>}} = 1..6
    /\ getAvailableDates(monthlyAvailability, Undefined, FALSE, currentMonth) # {}
    /\ getAvailableDates(monthlyAvailability, Undefined, TRUE, currentMonth) = {}

\* the date string a is later than the date string b
After(a, b) ==
    \/ a[1] > b[1]
    \/ a[1] = b[1] /\ a[2] > b[2]
    \/ a[1] = b[1] /\ a[2] = b[2] /\ a[3] > b[3]

\* the fetch was rejected or answered with a status that is not OK
FailedRequest(outcome) == "rejected" \in DOMAIN outcome \/ ~outcome.ok

\* C29, the form: a booking is handed to BookingService only when the name is not
\* blank, the phone matches the accepted pattern, there is at least one adult and
\* a check-in date exists; its endDate is strictly after its startDate, and is the
\* day after the check-in when no check-out is selected.
C29_HandedOnlyWhenValid ==
    handed # <<>> =>
        LET data == handed[1]
        IN  /\ trim(data.name) # <<>>
            /\ matchesPhonePattern(trim(data.phone))
            /\ data.adults >= 1
            /\ HasFrom(selectedRange)
            /\ After(data.endDate, data.startDate)
            /\ ~HasTo(selectedRange) =>
                   data.endDate = formatDate(getTime(From(selectedRange) + 1))

\* C29, the service: submitBooking never throws, and on a rejected fetch or a
\* response that is not OK it returns success = false with an error message.
C29_ServiceNeverThrows ==
    response # <<>> =>
        /\ "return" \in DOMAIN response[1].done
        /\ FailedRequest(response[1].outcome) =>
               /\ ~response[1].done.return.success
               /\ response[1].done.return.error \notin {<<>>, <<"">>}

\* C29: both parts
C29_BookingSubmission == C29_HandedOnlyWhenValid /\ C29_ServiceNeverThrows

\* C27: the cache never holds more than 10 entries; when a clean-up removes
\* entries they are the ones with the oldest timestamps (none of them is newer
\* than an entry that stays), and the entry just inserted is not among them.
C27_CacheKeepsNewestTen ==
    /\ Len(tabCache) <= 10
    /\ lastSet # <<>> =>
           /\ \A gone \in lastSet.deleted :
                  \A i \in 1..Len(tabCache) : gone.timestamp <= tabCache[i].timestamp
           /\ \A gone \in lastSet.deleted : gone.key # lastSet.key

====
